---- MODULE Spec2Model ----
(***************************************************************************)
(* A model of the partial-bundling, module-cache, watch-graph, file        *)
(* watcher and JS plugin context code of farm.                             *)
(*                                                                         *)
(*   crates/plugin_partial_bundling/src/generate_resource_pots.rs          *)
(*   crates/plugin_partial_bundling/src/module_bucket.rs                   *)
(*   crates/core/src/cache/module_cache.rs                                 *)
(*   crates/core/src/context/mod.rs                                        *)
(*   crates/node/src/lib.rs                                                *)
(*   crates/node/src/plugin_adapters/js_plugin_adapter/context.rs          *)
(*                                                                         *)
(* Strings are sequences of one-character strings, so that formatting      *)
(* ("{}_{}"), path splitting and file_stem are computed, not assumed.      *)
(*                                                                         *)
(* The specifications of the module:                                       *)
(*   Spec            generate_resource_pots, one group per step            *)
(*   SpecName        generate_resource_pot_name as a pure function         *)
(*   SpecBucket      ModuleBucket operations and find_best_process_bucket  *)
(*   SpecBucketSize  the module set and size accumulators of ModuleBucket  *)
(*   SpecCache       ModuleCacheManager with one writer and one reader     *)
(*   SpecGraph       add_watch_files and relation_roots                    *)
(*   SpecEvents      the event handler of FsWatcher::new                   *)
(*   SpecWatcher     FileWatcher watch and unwatch                         *)
(*   SpecCtx         the methods of the JS plugin context                  *)
(*   SpecLocks       the RwLocks of module_graph and watch_graph           *)
(***************************************************************************)
EXTENDS Integers, Sequences, FiniteSets, TLC

VARIABLES
  \* ---- generate_resource_pot_name (SpecName)
  name_args,                  \* [gid, used, entries] the call's arguments, or NoCall
  name_result,                \* the returned name, or None before the call
  \* ---- generate_resource_pots (Spec)
  module_group_buckets,       \* Vec<ModuleGroupBuckets>: seq of [module_group_id, buckets]
  module_buckets_map,         \* HashMap<String, ModuleBucket>
  entries,                    \* module_graph.entries: group id -> configured name
  resource_pot_map,           \* HashMap<ResourcePotId, ResourcePot>
  handled_module_group_buckets,
  used_resource_pot_names,
  base_names,                 \* base_resource_pot_name of each group walked so far
  group_index,                \* number of groups the outer for loop has consumed
  pots_result,                \* the returned Vec<ResourcePot>, or None
  \* ---- ModuleBucket and find_best_process_bucket (SpecBucket)
  module_bucket_map,          \* HashMap<ModuleBucketId, ModuleBucket>
  bucket_ops,                 \* number of bucket mutations so far
  best_call,                  \* Some([ids, order, result]) of the last find_best call
  bucket_panicked,            \* a bucket operation has panicked (overflow check)
  bucket_swapped,             \* replace_modules or take_modules has been called
  taken_modules,              \* Some(set) returned by the last take_modules call
  \* ---- ModuleCacheManager (SpecCache)
  cache_fs,                   \* the files under the cache directory: path -> bytes
  cache_written,              \* key -> the value of the last completed set_module_cache
  writer,                     \* [pc, key, value, bytes] of the thread in set_module_cache
  reader,                     \* [pc, key, has, buf, bytes, got] of the thread probing the cache
  \* ---- CompilationContext::add_watch_files and the watch graph (SpecGraph)
  watch_graph,                \* WatchGraph: [nodes, edges], an edge is <<from, dep>>
  watch_recorded,             \* the <<from, dep>> pairs of all add_watch_files calls
  roots_call,                 \* Some([dep, roots]) of the last relation_roots call
  \* ---- the event handler of FsWatcher::new (SpecEvents)
  target_os,                  \* the target_os the crate is compiled for
  event_log,                  \* the results notify has handed to the handler, in order
  callback_calls,             \* the Vec<String> of every callback invocation, in order
  handler_panicked,           \* the handler has panicked, notify's event thread is gone
  \* ---- FileWatcher / FsWatcher watch and unwatch (SpecWatcher)
  subscribed,                 \* notify's registrations: path -> RecursiveMode
  watched_paths,              \* FsWatcher.watched_paths
  last_call,                  \* Some([op, paths, watch_path, ok, failed, tracked_before])
  sub_failed_ever,            \* some subscription call of notify has returned Err
  unwatched_ever,             \* unwatch has been called
  \* ---- the JS context methods of create_js_context (SpecCtx)
  ctx_box,                    \* method -> "live" or "freed": the Box behind its data pointer
  ctx_strong,                 \* strong count of the Arc<CompilationContext>
  ctx_calls,                  \* method -> number of invocations so far
  ctx_process,                \* "running" or "crashed"
  ctx_uaf,                    \* a callback or future has used a Box that was freed
  ctx_pending,                \* resolve futures spawned and not yet finished
  \* ---- the RwLocks of module_graph and watch_graph (SpecLocks)
  lock_readers,               \* lock -> the threads holding a read guard
  lock_writer,                \* lock -> the thread holding the write guard, as a set
  lock_waiting,               \* lock -> the threads parked in write()
  lock_pc                     \* thread -> "start", "one", "both", "released", "waiting",
                              \* "writing", "done"

nameVars == <<name_args, name_result>>
potsVars == <<module_group_buckets, module_buckets_map, entries, resource_pot_map,
              handled_module_group_buckets, used_resource_pot_names, base_names,
              group_index, pots_result>>
bucketVars == <<module_bucket_map, bucket_ops, best_call, bucket_panicked, bucket_swapped,
               taken_modules>>
cacheVars == <<cache_fs, cache_written, writer, reader>>
graphVars == <<watch_graph, watch_recorded, roots_call>>
eventVars == <<target_os, event_log, callback_calls, handler_panicked>>
watcherVars == <<subscribed, watched_paths, last_call, sub_failed_ever, unwatched_ever>>
ctxVars == <<ctx_box, ctx_strong, ctx_calls, ctx_process, ctx_uaf, ctx_pending>>
lockVars == <<lock_readers, lock_writer, lock_waiting, lock_pc>>
vars == <<nameVars, potsVars, bucketVars, cacheVars, graphVars, eventVars, watcherVars, ctxVars, lockVars>>

----------------------------------------------------------------------------
(* Bounds of the model. *)

\* Longest group list handed to generate_resource_pots.
MaxGroups == 2
\* Deepest group id path (number of components) given to generate_resource_pot_name.
MaxDepth == 3
\* Most mutating calls (add_module, remove_module, replace_modules, take_modules,
\* add_resource_pot) applied to the buckets.
MaxBucketOps == 3
\* Width in bits of the model's usize (the size accumulators wrap at 2^UsizeBits).
UsizeBits == 8
\* Most dependency entries of a cached module.
MaxDeps == 1
\* Most deps of one add_watch_files call.
MaxWatchDeps == 2
\* Most results notify hands to the event handler.
MaxEvents == 2
\* Most invocations of one JS context method.
MaxInvocations == 2

----------------------------------------------------------------------------
(* Strings *)

\* The characters in use, in ASCII order ('+' 43, '.' 46, '/' 47, digits, '_' 95,
\* letters).
Alphabet ==
  <<"+", ".", "/", "0", "1", "2", "3", "4", "5", "6", "7", "8", "9", "_",
    "a", "b", "c", "d", "e", "f", "g", "h", "i", "j", "k", "l", "m", "n", "o",
    "p", "q", "r", "s", "t", "u", "v", "w", "x", "y", "z">>

CharCode(c) == CHOOSE i \in 1..Len(Alphabet) : Alphabet[i] = c

\* Ord for String: byte-wise lexicographic, a proper prefix is smaller.
RECURSIVE StrLess(_, _)
StrLess(s, t) ==
  IF t = <<>> THEN FALSE
  ELSE IF s = <<>> THEN TRUE
  ELSE IF CharCode(Head(s)) # CharCode(Head(t))
       THEN CharCode(Head(s)) < CharCode(Head(t))
  ELSE StrLess(Tail(s), Tail(t))

\* Insert one string into a sorted sequence.
RECURSIVE SortedInsert(_, _)
SortedInsert(sorted, s) ==
  IF sorted = <<>> THEN <<s>>
  ELSE IF StrLess(s, Head(sorted)) THEN <<s>> \o sorted
  ELSE <<Head(sorted)>> \o SortedInsert(Tail(sorted), s)

\* Vec<String>::sort().
RECURSIVE SortStrings(_)
SortStrings(v) ==
  IF v = <<>> THEN <<>> ELSE SortedInsert(SortStrings(Tail(v)), Head(v))

\* usize formatted by "{}": decimal digits.
Digit(d) == Alphabet[d + 4]
RECURSIVE UsizeToString(_)
UsizeToString(n) ==
  IF n < 10 THEN <<Digit(n)>> ELSE UsizeToString(n \div 10) \o <<Digit(n % 10)>>

\* format!("{}_{}", a, b)
FormatUnderscore(a, b) == a \o <<"_">> \o b

----------------------------------------------------------------------------
(* Paths *)

\* PathBuf::from(string): the normal components of a '/'-separated path.
RECURSIVE SplitPath(_, _, _)
SplitPath(s, i, cur) ==
  IF i > Len(s) THEN (IF cur = <<>> THEN <<>> ELSE <<cur>>)
  ELSE IF s[i] = "/"
       THEN (IF cur = <<>> THEN <<>> ELSE <<cur>>) \o SplitPath(s, i + 1, <<>>)
  ELSE SplitPath(s, i + 1, Append(cur, s[i]))

PathBufFrom(s) == SplitPath(s, 1, <<>>)

\* Path::parent() is Some for a path with a component, None for "".
HasParent(path) == Len(path) > 0
Parent(path) == SubSeq(path, 1, Len(path) - 1)

\* Path::file_stem() of one component: the part before the last '.', the whole
\* component when it has no '.' or only a leading one.
FileStem(comp) ==
  LET dots == {i \in 1..Len(comp) : comp[i] = "."}
      last == CHOOSE i \in dots : \A j \in dots : j <= i
  IN IF dots = {} \/ last = 1 THEN comp ELSE SubSeq(comp, 1, last - 1)

\* utils::try_get_filename: the file name of the path without its extension.
try_get_filename(path) == FileStem(path[Len(path)])

----------------------------------------------------------------------------
(* generate_resource_pot_name *)

\* The while loop of generate_resource_pot_name with the used check left out: a
\* parent segment is prepended for every directory, whether needed or not.
RECURSIVE PotNameLoopUnchecked(_, _, _)
PotNameLoopUnchecked(path, name, used) ==
  IF ~HasParent(path) THEN name
  ELSE LET p == Parent(path)
       IN IF ~HasParent(p) THEN name
          ELSE PotNameLoopUnchecked(p, FormatUnderscore(try_get_filename(p), name), used)

\* while path.parent().is_some() { ... }
RECURSIVE PotNameLoop(_, _, _)
PotNameLoop(path, name, used) ==
  IF ~HasParent(path) THEN name
  ELSE LET p == Parent(path)
       IN IF ~HasParent(p) THEN name      \* "If the path is root, then break."
          ELSE LET n == FormatUnderscore(try_get_filename(p), name)
               IN IF n \notin used THEN n ELSE PotNameLoop(p, n, used)

generate_resource_pot_name(module_group_id, used, ents) ==
  IF module_group_id \in DOMAIN ents THEN ents[module_group_id]
  ELSE LET path == PathBufFrom(module_group_id)
           name == try_get_filename(path)
       IN IF name \notin used THEN name ELSE PotNameLoop(path, name, used)

----------------------------------------------------------------------------
(* SpecName: generate_resource_pot_name applied to drawn arguments *)

\* Option<T>: None is <<>>, Some(x) is <<x>>.
None == <<>>
Some(x) == <<x>>

\* The arguments of a specification that makes no call.
NoCall == [gid |-> <<>>, used |-> {}, entries |-> <<>>]

RECURSIVE JoinWith(_, _)
JoinWith(parts, sep) ==
  IF Len(parts) = 0 THEN <<>>
  ELSE IF Len(parts) = 1 THEN parts[1]
  ELSE parts[1] \o sep \o JoinWith(Tail(parts), sep)

\* Sequences over S of length 0..n.
SeqsUpTo(S, n) == UNION {[1..k -> S] : k \in 0..n}

\* The sequences that list every element of S once.
PermSeqs(S) ==
  {s \in [1..Cardinality(S) -> S] : \A i, j \in 1..Cardinality(S) : i # j => s[i] # s[j]}

Range(s) == {s[i] : i \in 1..Len(s)}

\* Directory names: two plain ones and one with a '.' in it.
NameDirs == {<<"s", "r", "c">>, <<"t", "e", "s", "t">>, <<"a", ".", "b">>}
NameFiles == {<<"a", ".", "h", "t", "m", "l">>, <<"a", "p", "i", ".", "t", "s">>}
NameEntryNames == {<<"a">>, <<"m", "a", "i", "n">>}

\* Group ids "<dir>/.../<file>" with at most MaxDepth components.
NameGroupIds ==
  {JoinWith(ds \o <<f>>, <<"/">>) : ds \in SeqsUpTo(NameDirs, MaxDepth - 1), f \in NameFiles}

\* The names "<dir>_..._<stem>" the suffixes of a group id spell, shortest first.
SuffixNames(gid) ==
  LET comps == PathBufFrom(gid)
      n == Len(comps)
  IN [i \in 1..n |->
        JoinWith(SubSeq(comps, n - i + 1, n - 1) \o <<FileStem(comps[n])>>, <<"_">>)]

\* The names "<stem of dir>_..._<stem>" the suffixes of a group id spell, shortest
\* first.
StemSuffixNames(gid) ==
  LET comps == PathBufFrom(gid)
      n == Len(comps)
  IN [i \in 1..n |->
        JoinWith([k \in 1..i |-> FileStem(comps[n - i + k])], <<"_">>)]

InitName ==
  /\ \E gid \in NameGroupIds :
       \E used \in SUBSET (Range(SuffixNames(gid)) \cup Range(StemSuffixNames(gid))
                            \cup {<<"z">>}) :
         \E ents \in {<<>>} \cup {[g \in {gid} |-> nm] : nm \in NameEntryNames} :
           name_args = [gid |-> gid, used |-> used, entries |-> ents]
  /\ name_result = None

CallGenerateName ==
  /\ name_args # NoCall
  /\ name_result = None
  /\ name_result' =
       Some(generate_resource_pot_name(name_args.gid, name_args.used, name_args.entries))
  /\ UNCHANGED name_args
  /\ UNCHANGED <<potsVars, bucketVars, cacheVars, graphVars, eventVars, watcherVars, ctxVars, lockVars>>

NameIdle == name_args = NoCall /\ name_result = None

----------------------------------------------------------------------------
(* ModuleBucket (module_bucket.rs) *)

\* ModuleBucket::new: no resource units, no sizes.
ModuleBucketNew(id, modules, config) ==
  [id |-> id, modules |-> modules, config |-> config, resource_units |-> {},
   size |-> <<>>]

\* usize arithmetic wraps at UsizeModulus when overflow checks are off.
UsizeModulus == 2 ^ UsizeBits

\* add_size: the accumulator of the type starts at 0 and grows by size. The addition
\* is the wrapping one of a build without overflow checks.
add_size(bucket, module_type, size) ==
  LET cur == IF module_type \in DOMAIN bucket.size THEN bucket.size[module_type] ELSE 0
  IN [bucket EXCEPT !.size = (module_type :> ((cur + size) % UsizeModulus)) @@ bucket.size]

\* `+=` in add_size overflows: a build with overflow checks panics here.
add_size_overflows(bucket, module_type, size) ==
  LET cur == IF module_type \in DOMAIN bucket.size THEN bucket.size[module_type] ELSE 0
  IN cur + size >= UsizeModulus

\* add_module: insert into the set, then add_size, whether or not the module was new.
add_module(bucket, module_id, module_type, size) ==
  add_size([bucket EXCEPT !.modules = @ \cup {module_id}], module_type, size)

\* sub_size: the accumulator of a type that has one shrinks by size; a type without
\* accumulator is left alone. The subtraction is the wrapping one of a build without
\* overflow checks.
sub_size(bucket, module_type, size) ==
  IF module_type \in DOMAIN bucket.size
  THEN [bucket EXCEPT !.size[module_type] = (@ - size) % UsizeModulus]
  ELSE bucket

\* `-=` in sub_size underflows: a build with overflow checks panics here.
sub_size_underflows(bucket, module_type, size) ==
  module_type \in DOMAIN bucket.size /\ bucket.size[module_type] < size

\* remove_module: sub_size, then remove from the set, whether or not the module was
\* in it.
remove_module(bucket, module_id, module_type, size) ==
  LET shrunk == sub_size(bucket, module_type, size)
  IN [shrunk EXCEPT !.modules = @ \ {module_id}]

\* The bool remove_module returns: was the module in the set.
remove_module_result(bucket, module_id) == module_id \in bucket.modules

\* replace_modules: the set is overwritten, the accumulators are not touched.
replace_modules(bucket, modules) == [bucket EXCEPT !.modules = modules]

\* take_modules: the set is left empty, the accumulators are not touched.
take_modules(bucket) == [bucket EXCEPT !.modules = {}]

\* The HashSet take_modules returns: the modules the bucket held.
take_modules_result(bucket) == bucket.modules

\* add_resource_pot
add_resource_pot(bucket, unit) == [bucket EXCEPT !.resource_units = @ \cup {unit}]

RECURSIVE SumValues(_, _)
SumValues(f, D) ==
  IF D = {} THEN 0
  ELSE LET k == CHOOSE x \in D : TRUE IN f[k] + SumValues(f, D \ {k})

\* total_size: the sum of the per-type accumulators.
total_size(bucket) == SumValues(bucket.size, DOMAIN bucket.size)

----------------------------------------------------------------------------
(* The inputs of generate_resource_pots *)

S_a_ts == <<"a", ".", "t", "s">>
S_b_ts == <<"b", ".", "t", "s">>
S_a_js == <<"a", ".", "j", "s">>
S_src_a_ts == <<"s", "r", "c", "/", "a", ".", "t", "s">>
S_shared_ts == <<"s", "h", "a", "r", "e", "d", ".", "t", "s">>

\* The modules that may root a module group (an entry or a dynamic import target).
GroupUniverse == {S_a_ts, S_b_ts, S_a_js, S_src_a_ts}
\* The modules that root no group and are imported by the roots of their groups.
SharedModules == {S_shared_ts}

\* The name the configuration gives a root when it is an entry (names are the keys of
\* the input map, so no two entries share one).
ConfiguredName(g) ==
  CASE g = S_a_ts -> <<"a">>
    [] g = S_b_ts -> <<"b">>
    [] g = S_a_js -> <<"m", "a", "i", "n">>
    [] OTHER -> <<"i", "n", "d", "e", "x">>

ScriptType == "js"

\* Module sizes in bytes, scaled down.
ModuleSize(m) == IF m \in SharedModules THEN 1 ELSE 2

\* The largest pot the bundling rules allow (the max-size target of section 4.5).
MaxPotSize == 2

DefaultBucketConfig == [weight |-> 0]

\* The id of the bucket of the modules whose group set is G: derived from the sorted
\* group ids.
BucketIdOf(G) == JoinWith(SortStrings(CHOOSE s \in PermSeqs(G) : TRUE), <<"+">>)

RECURSIVE AddModules(_, _)
AddModules(bucket, ms) ==
  IF ms = {} THEN bucket
  ELSE LET m == CHOOSE x \in ms : TRUE
       IN AddModules(add_module(bucket, m, ScriptType, ModuleSize(m)), ms \ {m})

Reverse(s) == [i \in 1..Len(s) |-> s[Len(s) + 1 - i]]

\* The groups of a module: a root is in its own group, a shared module in the groups
\* of the roots that import it.
GroupsOfModule(m, rootSet, sharedGroups) == IF m \in rootSet THEN {m} ELSE sharedGroups[m]

\* The roots in walking order: up to MaxGroups distinct group ids.
RootLists ==
  UNION {PermSeqs(T) : T \in {U \in SUBSET GroupUniverse :
                                 Cardinality(U) >= 1 /\ Cardinality(U) <= MaxGroups}}

InitPots ==
  /\ \E roots \in RootLists :
      \E sharedGroups \in [SharedModules -> (SUBSET Range(roots)) \ {{}}] :
        \E entrySet \in SUBSET Range(roots) :
          \E descending \in BOOLEAN :
            LET rootSet == Range(roots)
                modules == rootSet \cup SharedModules
                groupSets == {GroupsOfModule(m, rootSet, sharedGroups) : m \in modules}
                bucketOf(G) ==
                  AddModules(
                    ModuleBucketNew(BucketIdOf(G), {}, DefaultBucketConfig),
                    {m \in modules : GroupsOfModule(m, rootSet, sharedGroups) = G})
                listOf(g) ==
                  LET asc == SortStrings(
                               CHOOSE s \in PermSeqs({BucketIdOf(G) : G \in {H \in groupSets : g \in H}}) :
                                 TRUE)
                  IN IF descending THEN Reverse(asc) ELSE asc
            IN /\ module_group_buckets =
                    [i \in 1..Len(roots) |->
                       [module_group_id |-> roots[i], buckets |-> listOf(roots[i])]]
               /\ module_buckets_map =
                    [id \in {BucketIdOf(G) : G \in groupSets} |->
                       bucketOf(CHOOSE G \in groupSets : BucketIdOf(G) = id)]
               /\ entries = [g \in entrySet |-> ConfiguredName(g)]
  /\ resource_pot_map = <<>>
  /\ handled_module_group_buckets = {}
  /\ used_resource_pot_names = {}
  /\ base_names = <<>>
  /\ group_index = 0
  /\ pots_result = None

----------------------------------------------------------------------------
(* generate_resource_pots *)

\* ResourcePotId::new(format!("{}_{}", base_resource_pot_name, index))
ResourcePotIdOf(base, index) == FormatUnderscore(base, UsizeToString(index))

\* A handled bucket is never skipped: every group that lists it gets a pot of it.
NeverSkip(handled, module_bucket_id) == FALSE

\* if handled_module_group_buckets.contains(&module_bucket_id) { continue; }
SkipBucket(handled, module_bucket_id) == module_bucket_id \in handled

\* for module_id in module_bucket.modules() { resource_pot.add_module(..) }: the pot
\* lists the modules in the iteration order of the bucket's HashSet, here the order
\* the modules have in hash_order.
PotModules(bucket, hash_order) == SelectSeq(hash_order, LAMBDA m : m \in bucket.modules)

\* The inner for loop over the sorted, enumerated buckets of one group, from the
\* (0-based) index on: the pot map and the handled set it leaves.
\* The index counts skipped buckets too. The pot's resource_pot_type (copied from the
\* bucket's module type) and the println take no part in the placement and are left out.
RECURSIVE BucketLoop(_, _, _, _, _, _)
BucketLoop(sorted, index, base, pot_map, handled, hash_order) ==
  IF index >= Len(sorted) THEN [pot_map |-> pot_map, handled |-> handled]
  ELSE LET module_bucket_id == sorted[index + 1]
       IN IF SkipBucket(handled, module_bucket_id)
          THEN BucketLoop(sorted, index + 1, base, pot_map, handled, hash_order)
          ELSE LET module_bucket == module_buckets_map[module_bucket_id]
                   resource_pot_id == ResourcePotIdOf(base, index)
                   resource_pot ==
                     [id |-> resource_pot_id,
                      modules |-> PotModules(module_bucket, hash_order)]
               IN BucketLoop(sorted, index + 1, base,
                             (resource_pot_id :> resource_pot) @@ pot_map,
                             handled \cup {module_bucket_id}, hash_order)

AllModules == UNION {module_buckets_map[b].modules : b \in DOMAIN module_buckets_map}

\* One iteration of the outer for loop: name the group, sort its buckets, turn every
\* bucket not yet handled into a pot.
ProcessGroup ==
  /\ pots_result = None
  /\ group_index < Len(module_group_buckets)
  /\ LET module_group_bucket == module_group_buckets[group_index + 1]
         base_resource_pot_name ==
           generate_resource_pot_name(module_group_bucket.module_group_id,
                                      used_resource_pot_names, entries)
         sorted == SortStrings(module_group_bucket.buckets)
     IN \E hash_order \in PermSeqs(AllModules) :
          LET after == BucketLoop(sorted, 0, base_resource_pot_name, resource_pot_map,
                                  handled_module_group_buckets, hash_order)
          IN /\ resource_pot_map' = after.pot_map
             /\ handled_module_group_buckets' = after.handled
             /\ used_resource_pot_names' = used_resource_pot_names \cup {base_resource_pot_name}
             /\ base_names' = Append(base_names, base_resource_pot_name)
             /\ group_index' = group_index + 1
  /\ UNCHANGED <<module_group_buckets, module_buckets_map, entries, pots_result>>
  /\ UNCHANGED <<nameVars, bucketVars, cacheVars, graphVars, eventVars, watcherVars, ctxVars, lockVars>>

\* resource_pot_map.into_iter().map(|item| item.1).collect(): the pots in the
\* iteration order of the HashMap.
CollectPots ==
  /\ pots_result = None
  /\ group_index = Len(module_group_buckets)
  /\ \E order \in PermSeqs(DOMAIN resource_pot_map) :
       pots_result' = Some([i \in 1..Len(order) |-> resource_pot_map[order[i]]])
  /\ UNCHANGED <<module_group_buckets, module_buckets_map, entries, resource_pot_map,
                 handled_module_group_buckets, used_resource_pot_names, base_names,
                 group_index>>
  /\ UNCHANGED <<nameVars, bucketVars, cacheVars, graphVars, eventVars, watcherVars, ctxVars, lockVars>>

PotsIdle ==
  /\ module_group_buckets = <<>>
  /\ module_buckets_map = <<>>
  /\ entries = <<>>
  /\ resource_pot_map = <<>>
  /\ handled_module_group_buckets = {}
  /\ used_resource_pot_names = {}
  /\ base_names = <<>>
  /\ group_index = 0
  /\ pots_result = None

----------------------------------------------------------------------------
(* find_best_process_bucket and the bucket mutations (SpecBucket) *)

\* The reduce closure with the weight comparison turned round: the lighter bucket wins.
BetterBucketLighter(a, b, bucket_map) ==
  LET module_bucket_1 == bucket_map[a]
      module_bucket_2 == bucket_map[b]
      a_units_len == Cardinality(module_bucket_1.resource_units)
      b_units_len == Cardinality(module_bucket_2.resource_units)
      a_prod == total_size(module_bucket_1) * a_units_len
      b_prod == total_size(module_bucket_2) * b_units_len
  IN IF module_bucket_1.config.weight # module_bucket_2.config.weight
     THEN (IF module_bucket_1.config.weight < module_bucket_2.config.weight THEN a ELSE b)
     ELSE IF a_prod # b_prod THEN (IF a_prod > b_prod THEN a ELSE b)
     ELSE IF a_units_len # b_units_len THEN (IF a_units_len > b_units_len THEN a ELSE b)
     ELSE a

\* The closure given to reduce: of the accumulator a and the next id b, the one with
\* the greater weight, else the greater total_size * units, else the more units, else a.
BetterBucket(a, b, bucket_map) ==
  LET module_bucket_1 == bucket_map[a]
      module_bucket_2 == bucket_map[b]
      a_units_len == Cardinality(module_bucket_1.resource_units)
      b_units_len == Cardinality(module_bucket_2.resource_units)
      a_prod == total_size(module_bucket_1) * a_units_len
      b_prod == total_size(module_bucket_2) * b_units_len
  IN IF module_bucket_1.config.weight # module_bucket_2.config.weight
     THEN (IF module_bucket_1.config.weight > module_bucket_2.config.weight THEN a ELSE b)
     ELSE IF a_prod # b_prod THEN (IF a_prod > b_prod THEN a ELSE b)
     ELSE IF a_units_len # b_units_len THEN (IF a_units_len > b_units_len THEN a ELSE b)
     ELSE a

\* Iterator::reduce over the ids in iteration order.
RECURSIVE ReduceBuckets(_, _, _)
ReduceBuckets(acc, rest, bucket_map) ==
  IF rest = <<>> THEN acc
  ELSE ReduceBuckets(BetterBucket(acc, Head(rest), bucket_map), Tail(rest), bucket_map)

\* find_best_process_bucket, given the order in which the HashSet yields its ids.
find_best_process_bucket(iter_order, bucket_map) ==
  ReduceBuckets(Head(iter_order), Tail(iter_order), bucket_map)

BucketIds == {<<"x">>, <<"y">>, <<"z">>}
BucketWeights == {0, 1}
BucketModules == {<<"m", "1">>, <<"m", "2">>}
\* Both modules are scripts, so that their sizes meet in one accumulator.
BucketModuleType(m) == "js"
BucketModuleSize(m) == IF m = <<"m", "1">> THEN 1 ELSE 2
\* The sets handed to replace_modules.
ReplacementSets == {{<<"m", "2">>}}
ResourceUnitIds == {<<"u", "1">>, <<"u", "2">>}

InitBucket ==
  /\ \E w \in [BucketIds -> BucketWeights] :
       module_bucket_map = [id \in BucketIds |-> ModuleBucketNew(id, {}, [weight |-> w[id]])]
  /\ bucket_ops = 0
  /\ best_call = None
  /\ bucket_panicked = FALSE
  /\ bucket_swapped = FALSE
  /\ taken_modules = None

\* bucket.add_module(module_id, &module_type, size): when the addition overflows, a
\* build with overflow checks panics after the module was inserted and a build
\* without them wraps.
AddModule ==
  /\ bucket_ops < MaxBucketOps
  /\ ~bucket_panicked
  /\ \E id \in BucketIds, m \in BucketModules :
       LET bucket == module_bucket_map[id]
           added == add_module(bucket, m, BucketModuleType(m), BucketModuleSize(m))
       IN \/ /\ module_bucket_map' = [module_bucket_map EXCEPT ![id] = added]
             /\ UNCHANGED bucket_panicked
          \/ /\ add_size_overflows(bucket, BucketModuleType(m), BucketModuleSize(m))
             /\ bucket_panicked' = TRUE
             /\ module_bucket_map' =
                  [module_bucket_map EXCEPT ![id].modules = @ \cup {m}]
  /\ bucket_ops' = bucket_ops + 1
  /\ best_call' = None
  /\ UNCHANGED <<bucket_swapped, taken_modules>>
  /\ UNCHANGED <<nameVars, potsVars, cacheVars, graphVars, eventVars, watcherVars, ctxVars, lockVars>>

\* bucket.add_resource_pot(resource_pot_id)
AddResourcePot ==
  /\ bucket_ops < MaxBucketOps
  /\ ~bucket_panicked
  /\ \E id \in BucketIds, u \in ResourceUnitIds :
       module_bucket_map' = [module_bucket_map EXCEPT ![id] = add_resource_pot(@, u)]
  /\ bucket_ops' = bucket_ops + 1
  /\ best_call' = None
  /\ UNCHANGED <<bucket_panicked, bucket_swapped, taken_modules>>
  /\ UNCHANGED <<nameVars, potsVars, cacheVars, graphVars, eventVars, watcherVars, ctxVars, lockVars>>

\* find_best_process_bucket(&module_bucket_ids, &module_bucket_map) on a non-empty
\* set of pending ids, iterated in some order.
FindBest ==
  /\ \E ids \in (SUBSET BucketIds) \ {{}} :
       \E iter_order \in PermSeqs(ids) :
         best_call' = Some([ids |-> ids, order |-> iter_order,
                            result |-> find_best_process_bucket(iter_order, module_bucket_map)])
  /\ UNCHANGED <<module_bucket_map, bucket_ops, bucket_panicked, bucket_swapped, taken_modules>>
  /\ UNCHANGED <<nameVars, potsVars, cacheVars, graphVars, eventVars, watcherVars, ctxVars, lockVars>>

\* bucket.remove_module(module_id, &module_type, size): when the subtraction
\* underflows, a build with overflow checks panics before anything is written and a
\* build without them wraps.
RemoveModule ==
  /\ bucket_ops < MaxBucketOps
  /\ ~bucket_panicked
  /\ \E id \in BucketIds, m \in BucketModules :
       LET bucket == module_bucket_map[id]
           removed == remove_module(bucket, m, BucketModuleType(m), BucketModuleSize(m))
       IN \/ /\ module_bucket_map' = [module_bucket_map EXCEPT ![id] = removed]
             /\ UNCHANGED bucket_panicked
          \/ /\ sub_size_underflows(bucket, BucketModuleType(m), BucketModuleSize(m))
             /\ bucket_panicked' = TRUE
             /\ UNCHANGED module_bucket_map
  /\ bucket_ops' = bucket_ops + 1
  /\ best_call' = None
  /\ UNCHANGED <<bucket_swapped, taken_modules>>
  /\ UNCHANGED <<nameVars, potsVars, cacheVars, graphVars, eventVars, watcherVars, ctxVars, lockVars>>

\* bucket.replace_modules(modules)
ReplaceModules ==
  /\ bucket_ops < MaxBucketOps
  /\ ~bucket_panicked
  /\ \E id \in BucketIds, modules \in ReplacementSets :
       module_bucket_map' = [module_bucket_map EXCEPT ![id] = replace_modules(@, modules)]
  /\ bucket_ops' = bucket_ops + 1
  /\ best_call' = None
  /\ bucket_swapped' = TRUE
  /\ UNCHANGED <<bucket_panicked, taken_modules>>
  /\ UNCHANGED <<nameVars, potsVars, cacheVars, graphVars, eventVars, watcherVars, ctxVars, lockVars>>

\* bucket.take_modules()
TakeModules ==
  /\ bucket_ops < MaxBucketOps
  /\ ~bucket_panicked
  /\ \E id \in BucketIds :
       /\ module_bucket_map' = [module_bucket_map EXCEPT ![id] = take_modules(@)]
       /\ taken_modules' = Some(take_modules_result(module_bucket_map[id]))
  /\ bucket_ops' = bucket_ops + 1
  /\ best_call' = None
  /\ bucket_swapped' = TRUE
  /\ UNCHANGED bucket_panicked
  /\ UNCHANGED <<nameVars, potsVars, cacheVars, graphVars, eventVars, watcherVars, ctxVars, lockVars>>

BucketIdle ==
  /\ module_bucket_map = <<>> /\ bucket_ops = 0 /\ best_call = None
  /\ bucket_panicked = FALSE /\ bucket_swapped = FALSE /\ taken_modules = None

----------------------------------------------------------------------------
(* ModuleCacheManager (module_cache.rs), SpecCache *)

\* ModuleCacheManager::new(root): <root>/node_modules/.farm/cache
cache_dir ==
  <<<<"r", "o", "o", "t">>,
    <<"n", "o", "d", "e", "_", "m", "o", "d", "u", "l", "e", "s">>,
    <<".", "f", "a", "r", "m">>,
    <<"c", "a", "c", "h", "e">>>>

\* Every key is stored in the one file named after the directory's parent.
CachePathShared(code_hash) == Parent(cache_dir) \o <<<<"m", "o", "d", "u", "l", "e">>>>

\* self.cache_dir.join(code_hash)
CachePath(code_hash) == cache_dir \o PathBufFrom(code_hash)

\* Content hashes in hex.
CacheKeys == {<<"0", "a">>, <<"1", "b">>}

\* CachedModule { module, deps }: the modules and dependency entries, as byte tags.
CacheModuleTags == {1, 2}
CacheDepTags == {7}
CachedModules ==
  {[module |-> m, deps |-> d] : m \in CacheModuleTags, d \in SeqsUpTo(CacheDepTags, MaxDeps)}

\* serialize!: the module, the number of deps, the deps.
Serialize(v) == <<v.module, Len(v.deps)>> \o v.deps

\* deserialize!: Some(value) for bytes that are a whole serialization, None for any
\* other buffer (short, empty or with a wrong length field).
Deserialize(bytes) ==
  IF /\ Len(bytes) >= 2
     /\ bytes[1] \in CacheModuleTags
     /\ Len(bytes) = 2 + bytes[2]
     /\ \A i \in 3..Len(bytes) : bytes[i] \in CacheDepTags
  THEN Some([module |-> bytes[1], deps |-> SubSeq(bytes, 3, Len(bytes))])
  ELSE None

\* has_module_cache: path.exists()
has_module_cache(code_hash) == CachePath(code_hash) \in DOMAIN cache_fs

\* get_module_cache on an existing file that no thread is writing: read it whole,
\* deserialize.
get_module_cache(code_hash) == Deserialize(cache_fs[CachePath(code_hash)])

NoValue == [module |-> 0, deps |-> <<>>]
WriterIdle == [pc |-> "idle", key |-> <<>>, value |-> NoValue, bytes |-> <<>>]
ReaderIdle ==
  [pc |-> "idle", key |-> <<>>, has |-> FALSE, buf |-> <<>>, bytes |-> None, got |-> None]

InitCache ==
  /\ cache_fs = <<>>
  /\ cache_written = <<>>
  /\ writer = WriterIdle
  /\ reader = ReaderIdle

\* set_module_cache(code_hash, module), first half of std::fs::write: the file is
\* created, or truncated when it exists, and is empty.
SetOpen ==
  /\ writer.pc = "idle"
  /\ \E k \in CacheKeys, v \in CachedModules :
       /\ writer' = [pc |-> "writing", key |-> k, value |-> v, bytes |-> Serialize(v)]
       /\ cache_fs' = (CachePath(k) :> <<>>) @@ cache_fs
  /\ UNCHANGED <<cache_written, reader>>
  /\ UNCHANGED <<nameVars, potsVars, bucketVars, graphVars, eventVars, watcherVars, ctxVars, lockVars>>

\* Second half of std::fs::write: write_all appends the bytes, some at a time; with
\* the last of them set_module_cache returns.
SetWrite ==
  /\ writer.pc = "writing"
  /\ LET path == CachePath(writer.key)
         at == Len(cache_fs[path])
     IN \E n \in 1..(Len(writer.bytes) - at) :
          LET content == SubSeq(writer.bytes, 1, at + n)
          IN /\ cache_fs' = [cache_fs EXCEPT ![path] = content]
             /\ IF content = writer.bytes
                THEN /\ writer' = WriterIdle
                     /\ cache_written' = (writer.key :> writer.value) @@ cache_written
                ELSE UNCHANGED <<writer, cache_written>>
  /\ UNCHANGED reader
  /\ UNCHANGED <<nameVars, potsVars, bucketVars, graphVars, eventVars, watcherVars, ctxVars, lockVars>>

\* std::fs::write returns Err (the directory is missing, the disk is full): unwrap()
\* panics, the file stays as far as it was written.
SetFail ==
  /\ \/ /\ writer.pc = "idle"
        /\ \E k \in CacheKeys :
             writer' = [pc |-> "panicked", key |-> k, value |-> NoValue, bytes |-> <<>>]
     \/ /\ writer.pc = "writing"
        /\ writer' = [writer EXCEPT !.pc = "panicked"]
  /\ UNCHANGED <<cache_fs, cache_written, reader>>
  /\ UNCHANGED <<nameVars, potsVars, bucketVars, graphVars, eventVars, watcherVars, ctxVars, lockVars>>

\* The reader's has_module_cache(code_hash), between two reads.
ReaderHas ==
  /\ reader.pc \in {"idle", "checked"}
  /\ \E k \in CacheKeys :
       reader' = [ReaderIdle EXCEPT !.pc = "checked", !.key = k, !.has = has_module_cache(k)]
  /\ UNCHANGED <<cache_fs, cache_written, writer>>
  /\ UNCHANGED <<nameVars, potsVars, bucketVars, graphVars, eventVars, watcherVars, ctxVars, lockVars>>

\* The reader's get_module_cache(code_hash) begins: std::fs::read opens the file, and
\* unwrap() panics when there is none. `has` records whether the call follows a
\* has_module_cache of the same key that returned true.
ReaderGet ==
  /\ reader.pc \in {"idle", "checked"}
  /\ \E k \in CacheKeys :
       LET after_has == reader.pc = "checked" /\ reader.key = k /\ reader.has
       IN IF CachePath(k) \in DOMAIN cache_fs
          THEN reader' = [ReaderIdle EXCEPT !.pc = "reading", !.key = k, !.has = after_has]
          ELSE reader' = [ReaderIdle EXCEPT !.pc = "panicked", !.key = k, !.has = after_has]
  /\ UNCHANGED <<cache_fs, cache_written, writer>>
  /\ UNCHANGED <<nameVars, potsVars, bucketVars, graphVars, eventVars, watcherVars, ctxVars, lockVars>>

\* One read() of the loop in std::fs::read: some of the bytes the file holds now
\* beyond the reader's offset are appended to the buffer; when there are none, the
\* read is over and get_module_cache returns deserialize! of the buffer.
ReaderRead ==
  /\ reader.pc = "reading"
  /\ LET file == cache_fs[CachePath(reader.key)]
         at == Len(reader.buf)
     IN IF Len(file) > at
        THEN \E n \in 1..(Len(file) - at) :
               reader' = [reader EXCEPT !.buf = @ \o SubSeq(file, at + 1, at + n)]
        ELSE reader' = [reader EXCEPT !.pc = "idle", !.bytes = Some(reader.buf),
                                      !.got = Deserialize(reader.buf)]
  /\ UNCHANGED <<cache_fs, cache_written, writer>>
  /\ UNCHANGED <<nameVars, potsVars, bucketVars, graphVars, eventVars, watcherVars, ctxVars, lockVars>>

CacheIdle ==
  /\ cache_fs = <<>>
  /\ cache_written = <<>>
  /\ writer = WriterIdle
  /\ reader = ReaderIdle

----------------------------------------------------------------------------
(* CompilationContext::add_watch_files (context/mod.rs) and WatchGraph, SpecGraph *)

\* WatchGraph::new()
WatchGraphNew == [nodes |-> {}, edges |-> {}]

\* WatchGraph::add_node: a node that exists is kept.
add_node(graph, node) == [graph EXCEPT !.nodes = @ \cup {node}]

\* WatchGraph::add_edge: Some(graph) with the edge from -> to, None (the Err) when one
\* of the two nodes is missing.
add_edge(graph, from, to) ==
  IF from \in graph.nodes /\ to \in graph.nodes
  THEN Some([graph EXCEPT !.edges = @ \cup {<<from, to>>}])
  ELSE None

\* The nodes with an edge into one of the nodes of frontier.
Sources(graph, frontier) == {e[1] : e \in {e \in graph.edges : e[2] \in frontier}}

\* The walk of relation_roots against the edges, a layer of sources at a time.
RECURSIVE RootsWalk(_, _, _)
RootsWalk(graph, frontier, visited) ==
  IF frontier = {} THEN visited
  ELSE LET found == Sources(graph, frontier) \ visited
       IN RootsWalk(graph, found, visited \cup found)

\* WatchGraph::relation_roots(dep), as a set.
relation_roots(graph, dep) ==
  IF dep \in graph.nodes THEN RootsWalk(graph, {dep}, {}) \ {dep} ELSE {}

\* add_watch_files with the edge recorded from the dep to the importer.
RECURSIVE add_watch_files_reversed(_, _, _)
add_watch_files_reversed(graph, from, deps) ==
  IF deps = <<>> THEN Some(graph)
  ELSE LET dep == Head(deps)
           added == add_edge(add_node(add_node(graph, from), dep), dep, from)
       IN IF added = None THEN None
          ELSE add_watch_files_reversed(added[1], from, Tail(deps))

\* add_watch_files(from, deps) under the write lock: for each dep add both nodes and
\* the edge from -> dep; the first Err of add_edge is returned. None is the Err.
RECURSIVE add_watch_files(_, _, _)
add_watch_files(graph, from, deps) ==
  IF deps = <<>> THEN Some(graph)
  ELSE LET dep == Head(deps)
           added == add_edge(add_node(add_node(graph, from), dep), from, dep)
       IN IF added = None THEN None
          ELSE add_watch_files(added[1], from, Tail(deps))

\* "./a", "./v_c", "./v_d" of the test file_as_root_and_dep.
W_a == <<"a">>
W_vc == <<"v", "c">>
W_vd == <<"v", "d">>
WatchFiles == {W_a, W_vc, W_vd}

InitGraph ==
  /\ watch_graph = WatchGraphNew
  /\ watch_recorded = {}
  /\ roots_call = None

\* context.add_watch_files(from, deps)
AddWatchFiles ==
  /\ \E from \in WatchFiles, deps \in SeqsUpTo(WatchFiles, MaxWatchDeps) :
       LET res == add_watch_files(watch_graph, from, deps)
       IN /\ res # None
          /\ watch_graph' = res[1]
          /\ watch_recorded' = watch_recorded \cup {<<from, deps[i]>> : i \in 1..Len(deps)}
  /\ roots_call' = None
  /\ UNCHANGED <<nameVars, potsVars, bucketVars, cacheVars, eventVars, watcherVars, ctxVars, lockVars>>

\* context.watch_graph.read().relation_roots(&dep)
RelationRoots ==
  /\ \E dep \in WatchFiles :
       roots_call' = Some([dep |-> dep, roots |-> relation_roots(watch_graph, dep)])
  /\ UNCHANGED <<watch_graph, watch_recorded>>
  /\ UNCHANGED <<nameVars, potsVars, bucketVars, cacheVars, eventVars, watcherVars, ctxVars, lockVars>>

GraphIdle == watch_graph = <<>> /\ watch_recorded = {} /\ roots_call = None

----------------------------------------------------------------------------
(* The event handler built by FsWatcher::new (node/src/lib.rs), SpecEvents *)

\* cfg!(target_os): the systems FsWatcher::watch is compiled for.
TargetOs == {"macos", "linux", "windows"}

\* notify::EventKind with its inner kind: Any, Access(_), Create(_), Modify(_),
\* Remove(_).
EventKinds ==
  {<<"Any", "Any">>,
   <<"Access", "Open">>, <<"Access", "Close">>,
   <<"Create", "File">>,
   <<"Modify", "Any">>, <<"Modify", "Data">>, <<"Modify", "Metadata">>, <<"Modify", "Name">>,
   <<"Remove", "File">>}

\* EventKind::is_modify()
is_modify(kind) == kind[1] = "Modify"

\* The cfg!/matches! chain of the handler: does the callback run for this kind.
EventPasses(os, kind) ==
  IF os = "macos" THEN kind = <<"Modify", "Data">>
  ELSE IF os = "linux" THEN kind = <<"Access", "Close">>
  ELSE is_modify(kind)

\* A byte of a file name that is no part of a valid UTF-8 sequence.
NonUtf8Byte == "0xff"

\* Path::to_str() is Some: every byte of the path belongs to valid UTF-8.
ValidUtf8(path) ==
  \A i \in 1..Len(path) : \A j \in 1..Len(path[i]) : path[i][j] # NonUtf8Byte

\* p.to_str().unwrap().to_string() of an absolute path of normal components:
\* Some(string), or None when to_str() is None and unwrap() panics.
PathToString(path) ==
  IF ValidUtf8(path) THEN Some(<<"/">> \o JoinWith(path, <<"/">>)) ELSE None

\* get_paths(): Some(the event's paths as strings, in the event's order), or None
\* when the closure panics on a path.
get_paths(event) ==
  IF \A i \in 1..Len(event.paths) : PathToString(event.paths[i]) # None
  THEN Some([i \in 1..Len(event.paths) |-> PathToString(event.paths[i])[1]])
  ELSE None

P_a_f == <<<<"a">>, <<"f">>>>
P_a_g == <<<<"a">>, <<"g">>>>
\* /a/f<0xff>: a file name that is not valid UTF-8.
P_a_bad == <<<<"a">>, <<"f", NonUtf8Byte>>>>
EventPathLists == {<<P_a_f>>, <<P_a_g>>, <<P_a_f, P_a_g>>, <<P_a_bad>>, <<P_a_f, P_a_bad>>}

\* Result<notify::Event, notify::Error>: Ok(event) or Err.
OkEvents == {[ok |-> TRUE, kind |-> k, paths |-> ps] : k \in EventKinds, ps \in EventPathLists}
ErrEvent == [ok |-> FALSE, kind |-> <<"Any", "Any">>, paths |-> <<>>]
EventResults == OkEvents \cup {ErrEvent}

\* FsWatcher::new(callback): no event yet.
InitEvents ==
  /\ target_os \in TargetOs
  /\ event_log = <<>>
  /\ callback_calls = <<>>
  /\ handler_panicked = FALSE

\* notify calls the handler with one result: result.unwrap() panics on Err; else,
\* when the kind passes the filter, get_paths() runs (and panics on a path that is
\* not valid UTF-8) and the callback runs once with its result.
HandleEvent ==
  /\ ~handler_panicked
  /\ Len(event_log) < MaxEvents
  /\ \E result \in EventResults :
       /\ event_log' = Append(event_log, result)
       /\ IF ~result.ok
          THEN /\ handler_panicked' = TRUE
               /\ UNCHANGED callback_calls
          ELSE IF ~EventPasses(target_os, result.kind)
          THEN UNCHANGED <<handler_panicked, callback_calls>>
          ELSE IF get_paths(result) = None
          THEN /\ handler_panicked' = TRUE
               /\ UNCHANGED callback_calls
          ELSE /\ UNCHANGED handler_panicked
               /\ callback_calls' = Append(callback_calls, get_paths(result)[1])
  /\ UNCHANGED target_os
  /\ UNCHANGED <<nameVars, potsVars, bucketVars, cacheVars, graphVars, watcherVars, ctxVars, lockVars>>

EventIdle ==
  /\ target_os = "" /\ event_log = <<>> /\ callback_calls = <<>> /\ handler_panicked = FALSE

----------------------------------------------------------------------------
(* FsWatcher::watch / unwatch and FileWatcher (node/src/lib.rs), SpecWatcher *)

\* notify's Watcher::watch(path, mode) returning Ok: the path is registered with the
\* mode.
notify_watch(subs, path, mode) == (path :> mode) @@ subs

\* notify's Watcher::unwatch(path): Ok and the registration removed, or Err for a path
\* that is not registered.
notify_unwatch(subs, path) ==
  IF path \in DOMAIN subs
  THEN [ok |-> TRUE, subs |-> [q \in DOMAIN subs \ {path} |-> subs[q]]]
  ELSE [ok |-> FALSE, subs |-> subs]

\* item is a component-wise prefix of path: path.starts_with(item).
starts_with(path, item) ==
  Len(item) <= Len(path) /\ SubSeq(path, 1, Len(item)) = item

\* The for loop of the macOS/Windows watch from component index on: a component of
\* first_item is pushed when every other path has the same component at that index.
RECURSIVE PrefixComps(_, _, _)
PrefixComps(first_item, rest, index) ==
  IF index > Len(first_item) THEN <<>>
  ELSE LET comp == first_item[index]
           all == \A i \in 1..Len(rest) : index <= Len(rest[i]) /\ rest[i][index] = comp
       IN (IF all THEN <<comp>> ELSE <<>>) \o PrefixComps(first_item, rest, index + 1)

\* watch_path of the macOS/Windows watch for a non-empty list.
WatchPath(paths) == PrefixComps(Head(paths), Tail(paths), 1)

\* FsWatcher::watch for macOS and Windows; fails holds the paths notify refuses.
FsWatcher_watch_macos(w, paths, fails) ==
  IF paths = <<>> THEN [ok |-> TRUE, w |-> w]
  ELSE LET watch_path == WatchPath(paths)
       IN IF \E i \in 1..Len(w.watched_paths) : starts_with(watch_path, w.watched_paths[i])
          THEN [ok |-> TRUE, w |-> w]
          ELSE LET pushed == Append(w.watched_paths, watch_path)
               IN IF watch_path \in fails
                  THEN [ok |-> FALSE, w |-> [w EXCEPT !.watched_paths = pushed]]
                  ELSE [ok |-> TRUE,
                        w |-> [watcher |-> notify_watch(w.watcher, watch_path, "Recursive"),
                               watched_paths |-> pushed]]

\* FsWatcher::watch for Linux; fails holds the paths notify refuses.
RECURSIVE FsWatcher_watch_linux(_, _, _)
FsWatcher_watch_linux(w, paths, fails) ==
  IF paths = <<>> THEN [ok |-> TRUE, w |-> w]
  ELSE LET path == Head(paths)
       IN IF path \in Range(w.watched_paths)
          THEN FsWatcher_watch_linux(w, Tail(paths), fails)
          ELSE FsWatcher_watch_linux(
                 [watcher |-> IF path \in fails THEN w.watcher
                              ELSE notify_watch(w.watcher, path, "NonRecursive"),
                  watched_paths |-> Append(w.watched_paths, path)],
                 Tail(paths), fails)

\* FsWatcher::watch as compiled for os.
FsWatcher_watch(os, w, paths, fails) ==
  IF os = "linux" THEN FsWatcher_watch_linux(w, paths, fails)
  ELSE FsWatcher_watch_macos(w, paths, fails)

\* FileWatcher::watch: the paths are turned into Paths, the result of FsWatcher::watch
\* is dropped by .ok().
FileWatcher_watch(os, w, paths, fails) ==
  LET res == FsWatcher_watch(os, w, [i \in 1..Len(paths) |-> PathBufFrom(paths[i])], fails)
  IN [ok |-> TRUE, w |-> res.w]

\* FsWatcher::unwatch
FsWatcher_unwatch(w, path) ==
  LET res == notify_unwatch(w.watcher, PathBufFrom(path))
  IN [ok |-> res.ok, w |-> [w EXCEPT !.watcher = res.subs]]

\* FileWatcher::unwatch with `?` in the place of .ok(): the first Err is returned.
RECURSIVE FileWatcher_unwatch_propagating(_, _)
FileWatcher_unwatch_propagating(w, paths) ==
  IF paths = <<>> THEN [ok |-> TRUE, w |-> w]
  ELSE LET res == FsWatcher_unwatch(w, Head(paths))
       IN IF res.ok THEN FileWatcher_unwatch_propagating(res.w, Tail(paths))
          ELSE [ok |-> FALSE, w |-> res.w]

\* FileWatcher::unwatch: every path is unwatched, each result dropped by .ok().
RECURSIVE FileWatcher_unwatch(_, _)
FileWatcher_unwatch(w, paths) ==
  IF paths = <<>> THEN [ok |-> TRUE, w |-> w]
  ELSE FileWatcher_unwatch(FsWatcher_unwatch(w, Head(paths)).w, Tail(paths))

\* The path strings handed in from JavaScript.
S_a_b == <<"/", "a", "/", "b">>
S_a_b_c == <<"/", "a", "/", "b", "/", "c">>
S_a_x_c == <<"/", "a", "/", "x", "/", "c">>
S_a == <<"/", "a">>
\* The lists given to watch: none, one file, a directory and a file in it, two files
\* of different directories in both orders.
WatchLists ==
  {<<>>, <<S_a_b>>, <<S_a_b_c>>, <<S_a_b, S_a_b_c>>, <<S_a_b_c, S_a_x_c>>,
   <<S_a_x_c, S_a_b_c>>}
\* The lists given to unwatch.
UnwatchLists == {<<S_a>>, <<S_a_b>>, <<S_a_b_c>>, <<S_a_x_c>>, <<S_a_b, S_a_b_c>>}

\* The paths FsWatcher::watch passes to notify for this call.
Attempted(os, w, paths) ==
  IF os = "linux" THEN {p \in Range(paths) : p \notin Range(w.watched_paths)}
  ELSE IF paths = <<>> THEN {}
  ELSE IF \E i \in 1..Len(w.watched_paths) : starts_with(WatchPath(paths), w.watched_paths[i])
       THEN {}
  ELSE {WatchPath(paths)}

\* FsWatcher::new: nothing registered, watched_paths: vec![].
InitWatcher ==
  /\ target_os \in TargetOs
  /\ subscribed = <<>>
  /\ watched_paths = <<>>
  /\ last_call = None
  /\ sub_failed_ever = FALSE
  /\ unwatched_ever = FALSE

ThisWatcher == [watcher |-> subscribed, watched_paths |-> watched_paths]

\* watcher.watch(paths) from JavaScript; notify refuses some of the paths it is asked
\* to register.
Watch ==
  /\ \E strs \in WatchLists :
       LET paths == [i \in 1..Len(strs) |-> PathBufFrom(strs[i])]
           attempted == Attempted(target_os, ThisWatcher, paths)
       IN \E fails \in SUBSET attempted :
            LET res == FileWatcher_watch(target_os, ThisWatcher, strs, fails)
            IN /\ subscribed' = res.w.watcher
               /\ watched_paths' = res.w.watched_paths
               /\ last_call' =
                    Some([op |-> "watch", paths |-> paths,
                          watch_path |-> IF target_os = "linux" \/ paths = <<>>
                                         THEN None ELSE Some(WatchPath(paths)),
                          ok |-> res.ok, failed |-> fails, tracked_before |-> {}])
               /\ sub_failed_ever' = (sub_failed_ever \/ fails # {})
  /\ UNCHANGED unwatched_ever
  /\ UNCHANGED <<nameVars, potsVars, bucketVars, cacheVars, graphVars, eventVars, ctxVars, lockVars>>

\* watcher.unwatch(paths) from JavaScript.
Unwatch ==
  /\ \E strs \in UnwatchLists :
       LET paths == [i \in 1..Len(strs) |-> PathBufFrom(strs[i])]
           res == FileWatcher_unwatch(ThisWatcher, strs)
       IN /\ subscribed' = res.w.watcher
          /\ watched_paths' = res.w.watched_paths
          /\ last_call' =
               Some([op |-> "unwatch", paths |-> paths, watch_path |-> None,
                     ok |-> res.ok, failed |-> {},
                     tracked_before |-> Range(paths) \cap DOMAIN subscribed])
  /\ unwatched_ever' = TRUE
  /\ UNCHANGED sub_failed_ever
  /\ UNCHANGED <<nameVars, potsVars, bucketVars, cacheVars, graphVars, eventVars, ctxVars, lockVars>>

WatcherIdle ==
  /\ subscribed = <<>> /\ watched_paths = <<>> /\ last_call = None
  /\ sub_failed_ever = FALSE /\ unwatched_ever = FALSE

----------------------------------------------------------------------------
(* create_js_context and the context methods (js_plugin_adapter/context.rs), SpecCtx *)

\* RESOLVE, ADD_WATCH_FILE, EMIT_FILE, GET_WATCH_FILES, WARN, ERROR
ContextMethods == {"resolve", "addWatchFile", "emitFile", "getWatchFiles", "warn", "error"}

\* The Arcs held outside the JS context (the compiler's own).
OwnerRefs == 1

\* attach_context_method: Box::into_raw(Box::new(ctx)) is the function's data pointer.
attach_context_method(boxes, name) == (name :> "live") @@ boxes

RECURSIVE AttachAll(_, _)
AttachAll(boxes, names) ==
  IF names = {} THEN boxes
  ELSE LET name == CHOOSE n \in names : TRUE
       IN AttachAll(attach_context_method(boxes, name), names \ {name})

\* The methods whose callback uses ctx and drops the Box before it returns; resolve
\* moves the Box into the future it hands to execute_tokio_future.
SyncMethods == ContextMethods \ {"resolve"}

\* get_argv_and_context_from_cb_info takes ownership with Box::from_raw, and the
\* callback (or the future it moves ctx into) drops the Box when it is done.
box_after_call(state) == "freed"

\* Arc::drop: fetch_sub(1) on the strong count.
arc_drop(strong) == (strong - 1) % UsizeModulus

\* create_js_context(raw_env, ctx): six methods, each with its own Box of a clone.
InitCtx ==
  /\ ctx_box = AttachAll(<<>>, ContextMethods)
  /\ ctx_strong = OwnerRefs + Cardinality(ContextMethods)
  /\ ctx_calls = [m \in ContextMethods |-> 0]
  /\ ctx_process = "running"
  /\ ctx_uaf = FALSE
  /\ ctx_pending = 0

\* The owner of a Box is done with it. With the Box alive it reads ctx and drops the
\* Box. With the Box freed it holds a dangling Box: the process crashes, or the stale
\* memory still reads as the Arc and is dropped once more.
UseAndDropBox(name) ==
  IF ctx_box[name] = "live"
  THEN /\ ctx_box' = [ctx_box EXCEPT ![name] = box_after_call(@)]
       /\ ctx_strong' = arc_drop(ctx_strong)
       /\ UNCHANGED <<ctx_process, ctx_uaf>>
  ELSE /\ ctx_uaf' = TRUE
       /\ \/ /\ ctx_process' = "crashed"
             /\ UNCHANGED <<ctx_box, ctx_strong>>
          \/ /\ ctx_strong' = arc_drop(ctx_strong)
             /\ UNCHANGED <<ctx_box, ctx_process>>

\* JavaScript calls context.<name>(..) for addWatchFile, emitFile, getWatchFiles, warn
\* or error: the callback takes the Box with Box::from_raw, runs and drops it.
InvokeMethod ==
  /\ ctx_process = "running"
  /\ \E name \in SyncMethods :
       /\ ctx_calls[name] < MaxInvocations
       /\ ctx_calls' = [ctx_calls EXCEPT ![name] = @ + 1]
       /\ UseAndDropBox(name)
  /\ UNCHANGED ctx_pending
  /\ UNCHANGED <<nameVars, potsVars, bucketVars, cacheVars, graphVars, eventVars, watcherVars, lockVars>>

\* JavaScript calls context.resolve(..): the callback takes the Box with
\* Box::from_raw, moves it into the future and returns the promise; nothing is read
\* or dropped yet.
InvokeResolve ==
  /\ ctx_process = "running"
  /\ ctx_calls["resolve"] < MaxInvocations
  /\ ctx_calls' = [ctx_calls EXCEPT !["resolve"] = @ + 1]
  /\ ctx_pending' = ctx_pending + 1
  /\ UNCHANGED <<ctx_box, ctx_strong, ctx_process, ctx_uaf>>
  /\ UNCHANGED <<nameVars, potsVars, bucketVars, cacheVars, graphVars, eventVars, watcherVars, lockVars>>

\* A future of resolve runs on the runtime: it reads ctx through its Box and drops
\* the Box when it ends.
ResolveFutureEnds ==
  /\ ctx_process = "running"
  /\ ctx_pending > 0
  /\ ctx_pending' = ctx_pending - 1
  /\ UseAndDropBox("resolve")
  /\ UNCHANGED ctx_calls
  /\ UNCHANGED <<nameVars, potsVars, bucketVars, cacheVars, graphVars, eventVars, watcherVars, lockVars>>

CtxIdle ==
  /\ ctx_box = <<>> /\ ctx_strong = 0 /\ ctx_calls = <<>>
  /\ ctx_process = "" /\ ctx_uaf = FALSE /\ ctx_pending = 0

----------------------------------------------------------------------------
(* The RwLocks of the context's graphs (context/mod.rs, node/src/lib.rs,         *)
(* js_plugin_adapter/context.rs), SpecLocks                                      *)

\* watch_graph: Box<RwLock<WatchGraph>>, module_graph: Box<RwLock<ModuleGraph>>
GraphLocks == {"module_graph", "watch_graph"}

\* One thread in each operation that takes a graph lock.
LockThreads ==
  {"has_module", "get_watch_files", "add_watch_files", "module_writer",
   "watch_modules", "relative_module_paths"}

\* RwLock::read() returns: no writer holds the lock and none is parked for it.
CanRead(lock) == lock_writer[lock] = {} /\ lock_waiting[lock] = {}

\* RwLock::write() returns: nobody holds the lock.
CanWrite(lock) == lock_writer[lock] = {} /\ lock_readers[lock] = {}

\* A reader of first then second: read() of both in this order; when the function
\* returns the guards are dropped one after the other, the one taken last first.
ReaderStep(t, first, second) ==
  /\ \/ /\ lock_pc[t] = "start"
        /\ CanRead(first)
        /\ lock_readers' = [lock_readers EXCEPT ![first] = @ \cup {t}]
        /\ lock_pc' = [lock_pc EXCEPT ![t] = "one"]
     \/ /\ lock_pc[t] = "one"
        /\ CanRead(second)
        /\ lock_readers' = [lock_readers EXCEPT ![second] = @ \cup {t}]
        /\ lock_pc' = [lock_pc EXCEPT ![t] = "both"]
     \/ /\ lock_pc[t] = "both"
        /\ lock_readers' = [lock_readers EXCEPT ![second] = @ \ {t}]
        /\ lock_pc' = [lock_pc EXCEPT ![t] = "released"]
     \/ /\ lock_pc[t] = "released"
        /\ lock_readers' = [lock_readers EXCEPT ![first] = @ \ {t}]
        /\ lock_pc' = [lock_pc EXCEPT ![t] = "done"]
  /\ UNCHANGED <<lock_writer, lock_waiting>>

\* A reader of one lock: read(), then the guard dropped when the function returns.
SingleReaderStep(t, lock) ==
  /\ \/ /\ lock_pc[t] = "start"
        /\ CanRead(lock)
        /\ lock_readers' = [lock_readers EXCEPT ![lock] = @ \cup {t}]
        /\ lock_pc' = [lock_pc EXCEPT ![t] = "one"]
     \/ /\ lock_pc[t] = "one"
        /\ lock_readers' = [lock_readers EXCEPT ![lock] = @ \ {t}]
        /\ lock_pc' = [lock_pc EXCEPT ![t] = "done"]
  /\ UNCHANGED <<lock_writer, lock_waiting>>

\* A writer of lock: write() returns at once or parks the thread until the lock is
\* free; the guard is dropped when the function returns.
WriterStep(t, lock) ==
  /\ \/ /\ lock_pc[t] \in {"start", "waiting"}
        /\ CanWrite(lock)
        /\ lock_writer' = [lock_writer EXCEPT ![lock] = {t}]
        /\ lock_waiting' = [lock_waiting EXCEPT ![lock] = @ \ {t}]
        /\ lock_pc' = [lock_pc EXCEPT ![t] = "writing"]
     \/ /\ lock_pc[t] = "start"
        /\ ~CanWrite(lock)
        /\ lock_waiting' = [lock_waiting EXCEPT ![lock] = @ \cup {t}]
        /\ lock_pc' = [lock_pc EXCEPT ![t] = "waiting"]
        /\ UNCHANGED lock_writer
     \/ /\ lock_pc[t] = "writing"
        /\ lock_writer' = [lock_writer EXCEPT ![lock] = {}]
        /\ lock_pc' = [lock_pc EXCEPT ![t] = "done"]
        /\ UNCHANGED lock_waiting
  /\ UNCHANGED lock_readers

\* CompilationContext::new: both locks free, no operation started.
InitLocks ==
  /\ lock_readers = [l \in GraphLocks |-> {}]
  /\ lock_writer = [l \in GraphLocks |-> {}]
  /\ lock_waiting = [l \in GraphLocks |-> {}]
  /\ lock_pc = [t \in LockThreads |-> "start"]

\* JsCompiler::has_module: module_graph.read(), then watch_graph.read().
HasModule ==
  /\ ReaderStep("has_module", "module_graph", "watch_graph")
  /\ UNCHANGED <<nameVars, potsVars, bucketVars, cacheVars, graphVars, eventVars,
                 watcherVars, ctxVars>>

\* get_watch_files: watch_graph.read(), then module_graph.read().
GetWatchFiles ==
  /\ ReaderStep("get_watch_files", "watch_graph", "module_graph")
  /\ UNCHANGED <<nameVars, potsVars, bucketVars, cacheVars, graphVars, eventVars,
                 watcherVars, ctxVars>>

\* JsCompiler::watch_modules: watch_graph.read().
WatchModules ==
  /\ SingleReaderStep("watch_modules", "watch_graph")
  /\ UNCHANGED <<nameVars, potsVars, bucketVars, cacheVars, graphVars, eventVars,
                 watcherVars, ctxVars>>

\* JsCompiler::relative_module_paths: module_graph.read().
RelativeModulePaths ==
  /\ SingleReaderStep("relative_module_paths", "module_graph")
  /\ UNCHANGED <<nameVars, potsVars, bucketVars, cacheVars, graphVars, eventVars,
                 watcherVars, ctxVars>>

\* CompilationContext::add_watch_files: watch_graph.write() for the whole call.
AddWatchFilesLocked ==
  /\ WriterStep("add_watch_files", "watch_graph")
  /\ UNCHANGED <<nameVars, potsVars, bucketVars, cacheVars, graphVars, eventVars,
                 watcherVars, ctxVars>>

\* A writer of the module graph: module_graph.write() for one update.
ModuleGraphWriter ==
  /\ WriterStep("module_writer", "module_graph")
  /\ UNCHANGED <<nameVars, potsVars, bucketVars, cacheVars, graphVars, eventVars,
                 watcherVars, ctxVars>>

LockIdle ==
  /\ lock_readers = <<>> /\ lock_writer = <<>> /\ lock_waiting = <<>> /\ lock_pc = <<>>

----------------------------------------------------------------------------
(* Specifications *)

Init == InitPots /\ NameIdle /\ BucketIdle /\ CacheIdle /\ GraphIdle /\ EventIdle /\ WatcherIdle /\ CtxIdle /\ LockIdle
Next == ProcessGroup \/ CollectPots
Spec == Init /\ [][Next]_vars

InitNameSpec == InitName /\ PotsIdle /\ BucketIdle /\ CacheIdle /\ GraphIdle /\ EventIdle /\ WatcherIdle /\ CtxIdle /\ LockIdle
NextName == CallGenerateName
SpecName == InitNameSpec /\ [][NextName]_vars

InitBucketSpec == InitBucket /\ NameIdle /\ PotsIdle /\ CacheIdle /\ GraphIdle /\ EventIdle /\ WatcherIdle /\ CtxIdle /\ LockIdle
NextBucket == AddModule \/ ReplaceModules \/ TakeModules \/ AddResourcePot \/ FindBest
SpecBucket == InitBucketSpec /\ [][NextBucket]_vars

NextBucketSize == AddModule \/ RemoveModule \/ ReplaceModules \/ TakeModules
SpecBucketSize == InitBucketSpec /\ [][NextBucketSize]_vars

InitCacheSpec == InitCache /\ NameIdle /\ PotsIdle /\ BucketIdle /\ GraphIdle /\ EventIdle /\ WatcherIdle /\ CtxIdle /\ LockIdle
NextCache == SetOpen \/ SetWrite \/ SetFail \/ ReaderHas \/ ReaderGet \/ ReaderRead
SpecCache == InitCacheSpec /\ [][NextCache]_vars

InitGraphSpec == InitGraph /\ NameIdle /\ PotsIdle /\ BucketIdle /\ CacheIdle /\ EventIdle /\ WatcherIdle /\ CtxIdle /\ LockIdle
NextGraph == AddWatchFiles \/ RelationRoots
SpecGraph == InitGraphSpec /\ [][NextGraph]_vars

InitEventsSpec ==
  InitEvents /\ NameIdle /\ PotsIdle /\ BucketIdle /\ CacheIdle /\ GraphIdle /\ WatcherIdle
  /\ CtxIdle /\ LockIdle
NextEvents == HandleEvent
SpecEvents == InitEventsSpec /\ [][NextEvents]_vars

InitWatcherSpec ==
  /\ InitWatcher
  /\ event_log = <<>> /\ callback_calls = <<>> /\ handler_panicked = FALSE
  /\ NameIdle /\ PotsIdle /\ BucketIdle /\ CacheIdle /\ GraphIdle /\ CtxIdle
  /\ LockIdle
NextWatcher == Watch \/ Unwatch
SpecWatcher == InitWatcherSpec /\ [][NextWatcher]_vars

InitCtxSpec ==
  /\ InitCtx
  /\ NameIdle /\ PotsIdle /\ BucketIdle /\ CacheIdle /\ GraphIdle /\ EventIdle /\ WatcherIdle
  /\ LockIdle
NextCtx == InvokeMethod \/ InvokeResolve \/ ResolveFutureEnds
SpecCtx == InitCtxSpec /\ [][NextCtx]_vars

InitLocksSpec ==
  /\ InitLocks
  /\ NameIdle /\ PotsIdle /\ BucketIdle /\ CacheIdle /\ GraphIdle /\ EventIdle /\ WatcherIdle
  /\ CtxIdle
NextLocks ==
  \/ HasModule \/ GetWatchFiles \/ AddWatchFilesLocked \/ ModuleGraphWriter
  \/ WatchModules \/ RelativeModulePaths
SpecLocks == InitLocksSpec /\ [][NextLocks]_vars

----------------------------------------------------------------------------
(* Properties of generate_resource_pots (Spec) *)

Done == pots_result # None
Pots == pots_result[1]

\* The buckets some group lists, and their modules.
ReferencedBuckets ==
  UNION {Range(module_group_buckets[i].buckets) : i \in 1..Len(module_group_buckets)}
ReferencedModules == UNION {module_buckets_map[b].modules : b \in ReferencedBuckets}

\* The returned pots that list module m.
PotsContaining(m) == {i \in 1..Len(Pots) : m \in Range(Pots[i].modules)}

\* The base name of a pot id "<base>_<index>": the id up to its last '_'.
BaseNameOfPot(id) ==
  LET us == {i \in 1..Len(id) : id[i] = "_"}
      last == CHOOSE i \in us : \A j \in us : j <= i
  IN SubSeq(id, 1, last - 1)

\* C1: once generate_resource_pots has returned, every module of a referenced bucket
\* is listed by exactly one returned pot (none lost, none duplicated).
PartitioningCoverage ==
  Done => \A m \in ReferencedModules : Cardinality(PotsContaining(m)) = 1

\* C2: the base name generated for a group differs from the base names generated for
\* the groups walked before it (the contents of used_resource_pot_names at the call).
BaseNamesUnique ==
  \A i, j \in 1..Len(base_names) : i < j => base_names[i] # base_names[j]

\* Scenario S2: entries a.ts and b.ts, in either order, both importing shared.ts.
S2Input ==
  /\ Len(module_group_buckets) = 2
  /\ {module_group_buckets[i].module_group_id : i \in 1..2} = {S_a_ts, S_b_ts}
  /\ DOMAIN entries = {S_a_ts, S_b_ts}
  /\ \A i \in 1..2 : BucketIdOf({S_a_ts, S_b_ts}) \in Range(module_group_buckets[i].buckets)

S_shared == <<"s", "h", "a", "r", "e", "d">>

\* C4 as stated: in scenario S2 the shared module is in a pot with base name 'shared',
\* and the pots named after a and b hold only that entry's own module.
S2SharedPotNamedShared ==
  (Done /\ S2Input) =>
    /\ PotsContaining(S_shared_ts) # {}
    /\ \A i \in PotsContaining(S_shared_ts) : BaseNameOfPot(Pots[i].id) = S_shared
    /\ \A i \in 1..Len(Pots) :
         \A g \in {S_a_ts, S_b_ts} :
           BaseNameOfPot(Pots[i].id) = entries[g] => Range(Pots[i].modules) = {g}

\* C4 amended: in scenario S2 the shared module is alone in exactly one pot, whose base
\* name is the configured name of the entry listed first; no pot has base name 'shared';
\* every other pot holds exactly one entry's own module under that entry's name.
S2SharedPotNamedAfterFirstEntry ==
  (Done /\ S2Input) =>
    LET first == module_group_buckets[1].module_group_id
    IN /\ Cardinality(PotsContaining(S_shared_ts)) = 1
       /\ \A i \in PotsContaining(S_shared_ts) :
            /\ BaseNameOfPot(Pots[i].id) = entries[first]
            /\ Pots[i].modules = <<S_shared_ts>>
       /\ \A i \in 1..Len(Pots) : BaseNameOfPot(Pots[i].id) # S_shared
       /\ \A g \in {S_a_ts, S_b_ts} : Cardinality(PotsContaining(g)) = 1
       /\ \A i \in (1..Len(Pots)) \ PotsContaining(S_shared_ts) :
            \E g \in {S_a_ts, S_b_ts} :
              Pots[i].modules = <<g>> /\ BaseNameOfPot(Pots[i].id) = entries[g]

\* Scenario S2 has run to its end.
S2Done == Done /\ S2Input

\* module_graph: m imports d when d is a shared module and m roots one of d's groups,
\* that is, m's group lists the bucket of d.
Imports(m, d) ==
  /\ d \in SharedModules
  /\ \E i \in 1..Len(module_group_buckets) :
       /\ module_group_buckets[i].module_group_id = m
       /\ \E b \in Range(module_group_buckets[i].buckets) : d \in module_buckets_map[b].modules

\* C5: in every returned pot a dependency precedes its importer.
PotsTopologicallyOrdered ==
  Done =>
    \A p \in 1..Len(Pots) :
      \A i, j \in 1..Len(Pots[p].modules) :
        i < j => ~Imports(Pots[p].modules[i], Pots[p].modules[j])

RECURSIVE SumSizes(_)
SumSizes(ms) == IF ms = <<>> THEN 0 ELSE ModuleSize(Head(ms)) + SumSizes(Tail(ms))

\* C6: no returned pot is larger than the configured maximum size.
PotsWithinMaxSize ==
  Done => \A p \in 1..Len(Pots) : SumSizes(Pots[p].modules) <= MaxPotSize

----------------------------------------------------------------------------
(* Properties of generate_resource_pot_name (SpecName) *)

\* The reference with the directory names as they are: the entry's configured name,
\* else the first candidate c0 = stem, c(i+1) = dir_c(i) that is not used, else the
\* longest candidate.
RefPotName(gid, used, ents) ==
  IF gid \in DOMAIN ents THEN ents[gid]
  ELSE LET c == SuffixNames(gid)
           free == {i \in 1..Len(c) : c[i] \notin used}
       IN IF free = {} THEN c[Len(c)]
          ELSE c[CHOOSE i \in free : \A j \in free : i <= j]

\* C3 as stated: generate_resource_pot_name returns what the reference returns, the
\* candidates being built from the names of the parent directories.
PotNameMatchesReference ==
  name_result # None =>
    name_result[1] = RefPotName(name_args.gid, name_args.used, name_args.entries)

\* The reference with the stem of each directory name (the name up to its last '.').
RefPotNameStem(gid, used, ents) ==
  IF gid \in DOMAIN ents THEN ents[gid]
  ELSE LET c == StemSuffixNames(gid)
           free == {i \in 1..Len(c) : c[i] \notin used}
       IN IF free = {} THEN c[Len(c)]
          ELSE c[CHOOSE i \in free : \A j \in free : i <= j]

\* C3 amended: generate_resource_pot_name returns the entry's configured name, else
\* the first unused candidate, else the longest one, the candidates being built from
\* the stems of the names of the parent directories.
PotNameMatchesStemReference ==
  name_result # None =>
    name_result[1] = RefPotNameStem(name_args.gid, name_args.used, name_args.entries)

S_a_b_api_ts == JoinWith(<<<<"a", ".", "b">>, <<"a", "p", "i", ".", "t", "s">>>>, <<"/">>)
S_a_api == <<"a", "_", "a", "p", "i">>
S_a_b_api == <<"a", ".", "b", "_", "a", "p", "i">>

\* 'a.b/api.ts' with 'api' used and 'a.b_api' free returns 'a_api'.
PotNameDottedDirUsesStem ==
  /\ name_args.gid = S_a_b_api_ts
  /\ name_args.entries = <<>>
  /\ <<"a", "p", "i">> \in name_args.used
  /\ S_a_api \notin name_args.used
  /\ S_a_b_api \notin name_args.used
  /\ name_result = Some(S_a_api)

----------------------------------------------------------------------------
(* Properties of find_best_process_bucket (SpecBucket) *)

BucketWeight(id) == module_bucket_map[id].config.weight
BucketUnits(id) == Cardinality(module_bucket_map[id].resource_units)
BucketProduct(id) == total_size(module_bucket_map[id]) * BucketUnits(id)

\* Bucket o is strictly above bucket r in the order (weight, size * units, units).
RanksAbove(o, r) ==
  \/ BucketWeight(o) > BucketWeight(r)
  \/ BucketWeight(o) = BucketWeight(r) /\ BucketProduct(o) > BucketProduct(r)
  \/ /\ BucketWeight(o) = BucketWeight(r)
     /\ BucketProduct(o) = BucketProduct(r)
     /\ BucketUnits(o) > BucketUnits(r)

\* C7: the returned bucket is one of the pending ids and no pending bucket ranks above it.
BestBucketIsMaximal ==
  best_call # None =>
    /\ best_call[1].result \in best_call[1].ids
    /\ \A o \in best_call[1].ids : ~RanksAbove(o, best_call[1].result)

\* A call over three pending buckets of equal weight that the size-times-units product
\* decides, the winner not being the first id iterated.
BestBucketDecidedByProduct ==
  /\ best_call # None
  /\ best_call[1].ids = BucketIds
  /\ \A o \in BucketIds : BucketWeight(o) = BucketWeight(best_call[1].result)
  /\ \A o \in BucketIds \ {best_call[1].result} :
       BucketProduct(o) < BucketProduct(best_call[1].result)
  /\ best_call[1].order[1] # best_call[1].result

\* C8: the returned bucket is the same for every iteration order of the pending ids.
BestBucketOrderIndependent ==
  best_call # None =>
    \A o \in PermSeqs(best_call[1].ids) :
      find_best_process_bucket(o, module_bucket_map) = best_call[1].result

\* The modules in sorted order, as one fixed iteration order of the HashSets.
SortedModules == SortStrings(CHOOSE s \in PermSeqs(AllModules) : TRUE)

\* The outer for loop from group i on with every HashSet iterated in sorted order:
\* the pot map it leaves.
RECURSIVE RunGroups(_, _, _, _)
RunGroups(i, pot_map, handled, used) ==
  IF i >= Len(module_group_buckets) THEN pot_map
  ELSE LET module_group_bucket == module_group_buckets[i + 1]
           base == generate_resource_pot_name(module_group_bucket.module_group_id,
                                              used, entries)
           after == BucketLoop(SortStrings(module_group_bucket.buckets), 0, base,
                               pot_map, handled, SortedModules)
       IN RunGroups(i + 1, after.pot_map, after.handled, used \cup {base})

\* The result of the run in which every hash map and hash set iterates in sorted
\* order.
ReferencePots ==
  LET pot_map == RunGroups(0, <<>>, {}, {})
      ids == SortStrings(CHOOSE s \in PermSeqs(DOMAIN pot_map) : TRUE)
  IN [i \in 1..Len(ids) |-> pot_map[ids[i]]]

\* C16: the result of a run does not depend on the iteration order of the hash maps
\* and hash sets: every run on the same input returns the sequence of pots, with the
\* same ids and the same module order in each pot, that the run iterating in sorted
\* order returns.
PotsDeterministic == Done => Pots = ReferencePots

\* The sum of the sizes of the modules a bucket holds.
RECURSIVE SumModuleSizes(_)
SumModuleSizes(ms) ==
  IF ms = {} THEN 0
  ELSE LET m == CHOOSE x \in ms : TRUE IN BucketModuleSize(m) + SumModuleSizes(ms \ {m})

\* C20: after any sequence of add_module and remove_module calls (and no call of
\* replace_modules or take_modules) no addition or subtraction has left the range of
\* usize and total_size() of every bucket is the sum of the sizes of the modules it
\* holds.
TotalSizeIsSumOfModules ==
  ~bucket_swapped =>
    /\ ~bucket_panicked
    /\ \A id \in BucketIds :
         total_size(module_bucket_map[id]) = SumModuleSizes(module_bucket_map[id].modules)

----------------------------------------------------------------------------
(* Properties of ModuleCacheManager (SpecCache) *)

\* C9: when no set_module_cache is under way, has_module_cache is true exactly for the
\* keys written, and get_module_cache of a written key returns the value last written
\* under that key.
CacheRoundTrip ==
  writer.pc = "idle" =>
    \A k \in CacheKeys :
      /\ has_module_cache(k) <=> k \in DOMAIN cache_written
      /\ k \in DOMAIN cache_written => get_module_cache(k) = Some(cache_written[k])

\* Both keys hold different values, and the reader has read one of them whole.
CacheTwoKeysWritten ==
  /\ writer.pc = "idle"
  /\ DOMAIN cache_written = CacheKeys
  /\ \E k1, k2 \in CacheKeys :
       /\ Len(cache_written[k1].deps) # Len(cache_written[k2].deps)
       /\ reader.key = k1
       /\ reader.got = Some(cache_written[k1])

\* C10: what get_module_cache reads after has_module_cache returned true is a complete
\* value, never an empty or partly written entry.
CacheReadsComplete ==
  (reader.bytes # None /\ reader.has) =>
    \E v \in CachedModules : reader.bytes[1] = Serialize(v)

\* C11: no cache operation aborts the build: a failed write is only logged and a failed
\* read is treated as an absent entry, so neither thread ever ends in a panic.
CacheFailuresNonFatal ==
  /\ writer.pc # "panicked"
  /\ reader.pc # "panicked"

----------------------------------------------------------------------------
(* Properties of add_watch_files and relation_roots (SpecGraph) *)

\* The pairs <<a, b>> with a path of one or more edges of E from a to b, by adding
\* the nodes of K as intermediate nodes one at a time.
RECURSIVE PathsThrough(_, _)
PathsThrough(E, K) ==
  IF K = {} THEN E
  ELSE LET k == CHOOSE k \in K : TRUE
           R == PathsThrough(E, K \ {k})
       IN R \cup {p \in WatchFiles \X WatchFiles : <<p[1], k>> \in R /\ <<k, p[2]>> \in R}

\* The files other than x from which x is reachable over the recorded edges.
RecordedRoots(x) ==
  {y \in WatchFiles \ {x} : <<y, x>> \in PathsThrough(watch_recorded, WatchFiles)}

\* C12: after any sequence of add_watch_files calls, relation_roots(x) is exactly the
\* set of files other than x from which x is reachable over the recorded from -> dep
\* edges.
RelationRootsAreReachingFiles ==
  roots_call # None => roots_call[1].roots = RecordedRoots(roots_call[1].dep)

\* The test file_as_root_and_dep: a -> {vc, vd} and vc -> {vd}, and relation_roots(vd)
\* has returned {a, vc}: vc is a dep of a and a root of vd.
RootsOfFileAsRootAndDep ==
  /\ watch_recorded = {<<W_a, W_vc>>, <<W_a, W_vd>>, <<W_vc, W_vd>>}
  /\ roots_call = Some([dep |-> W_vd, roots |-> {W_a, W_vc}])
  /\ relation_roots(watch_graph, W_vc) = {W_a}

----------------------------------------------------------------------------
(* Properties of the watcher's event handler (SpecEvents) *)

\* The per-OS policy: Modify(Data) on macOS, Access(Close) on Linux, any modify kind
\* elsewhere.
PolicyForwards(os, kind) ==
  \/ os = "macos" /\ kind[1] = "Modify" /\ kind[2] = "Data"
  \/ os = "linux" /\ kind[1] = "Access" /\ kind[2] = "Close"
  \/ os \notin {"macos", "linux"} /\ kind[1] = "Modify"

\* The events of log whose kind the policy forwards, in order.
PassingEvents(os, log) == SelectSeq(log, LAMBDA ev : ev.ok /\ PolicyForwards(os, ev.kind))

\* C13: the callback invocations are, in order, one per event whose kind passes the
\* per-OS filter, each carrying all paths of its event (every string names the path
\* at its place in the event); no other event invokes the callback.
ForwardedIffKindPasses ==
  LET passing == PassingEvents(target_os, event_log)
  IN /\ Len(callback_calls) = Len(passing)
     /\ \A i \in 1..Len(passing) :
          /\ i <= Len(callback_calls)
          /\ Len(callback_calls[i]) = Len(passing[i].paths)
          /\ \A j \in 1..Len(passing[i].paths) :
               PathBufFrom(callback_calls[i][j]) = passing[i].paths[j]

\* C17: an event that carries an error is only logged: the handler does not panic, so
\* the watcher stays able to forward later events.
ErrorEventsOnlyLogged ==
  (\E i \in 1..Len(event_log) : ~event_log[i].ok) => ~handler_panicked

----------------------------------------------------------------------------
(* Properties of watch and unwatch (SpecWatcher) *)

LastCall == last_call[1]
WatchCalled == last_call # None /\ LastCall.op = "watch"
UnwatchCalled == last_call # None /\ LastCall.op = "unwatch"

\* p is a component-wise prefix of every path of paths.
IsCommonPrefix(p, paths) ==
  \A i \in 1..Len(paths) : Len(p) <= Len(paths[i]) /\ SubSeq(paths[i], 1, Len(p)) = p

\* The longest common prefix of a non-empty list: a prefix of the first path that is
\* common and has no longer common prefix.
LongestCommonPrefix(paths) ==
  LET candidates == {SubSeq(paths[1], 1, n) : n \in 0..Len(paths[1])}
  IN CHOOSE p \in candidates :
       /\ IsCommonPrefix(p, paths)
       /\ \A q \in candidates : IsCommonPrefix(q, paths) => Len(q) <= Len(p)

\* C14: on macOS and Windows, the path watch computes for a non-empty list is the
\* longest common prefix of the requested paths.
WatchPathIsLongestCommonPrefix ==
  (WatchCalled /\ target_os \in {"macos", "windows"} /\ LastCall.paths # <<>>) =>
    LastCall.watch_path = Some(LongestCommonPrefix(LastCall.paths))

\* C15: an unwatch of paths none of which is subscribed returns success and changes
\* neither the subscriptions nor watched_paths.
UnwatchUntrackedIsNoOp ==
  [][(last_call' # None /\ last_call'[1].op = "unwatch" /\ last_call'[1].tracked_before = {})
       => /\ last_call'[1].ok
          /\ subscribed' = subscribed
          /\ watched_paths' = watched_paths]_vars

\* An unwatch of a path that was not subscribed has returned, while another path is
\* subscribed and recorded.
UnwatchedUntrackedPath ==
  /\ UnwatchCalled
  /\ LastCall.paths # <<>>
  /\ LastCall.tracked_before = {}
  /\ DOMAIN subscribed # {}
  /\ watched_paths # <<>>

\* C18: on Linux, after any sequence of watch calls, watched_paths has no duplicates
\* and every path in it is subscribed non-recursively with notify.
LinuxWatchedPathsAreSubscribedOnce ==
  (target_os = "linux" /\ ~unwatched_ever) =>
    /\ \A i, j \in 1..Len(watched_paths) : i # j => watched_paths[i] # watched_paths[j]
    /\ \A i \in 1..Len(watched_paths) :
         /\ watched_paths[i] \in DOMAIN subscribed
         /\ subscribed[watched_paths[i]] = "NonRecursive"

\* C19: when no subscription call has failed, after watch(paths) every requested path
\* is subscribed on Linux, and on macOS/Windows the common path or a directory above
\* it is subscribed recursively; an earlier unwatch does not prevent it.
WatchSubscribesAgain ==
  (WatchCalled /\ ~sub_failed_ever) =>
    IF target_os = "linux"
    THEN \A p \in Range(LastCall.paths) : p \in DOMAIN subscribed
    ELSE LastCall.paths # <<>> =>
           \E q \in DOMAIN subscribed :
             starts_with(LastCall.watch_path[1], q) /\ subscribed[q] = "Recursive"

----------------------------------------------------------------------------
(* Properties of the JS context methods (SpecCtx) *)

\* C21: the boxed handle of a context method stays valid over any number of
\* invocations: no invocation frees the Box, and none reads a Box freed before.
ContextHandleStaysValid ==
  /\ ~ctx_uaf
  /\ \A name \in ContextMethods : ctx_calls[name] > 0 => ctx_box[name] = "live"

----------------------------------------------------------------------------
(* Properties of the graph locks (SpecLocks) *)

AllLockThreadsDone == \A t \in LockThreads : lock_pc[t] = "done"

\* C22: no deadlock among the graph locks: in every interleaving, as long as one of
\* the operations has not completed, one of them can take its next step.
GraphLocksNeverDeadlock == AllLockThreadsDone \/ ENABLED NextLocks

====
